---- MODULE Spec2Model ----
(***************************************************************************)
(* Model of chatworks.py: the keyword classifier, the scorer, the          *)
(* deduplicator, the selector with its backfill pass, the feed loop and    *)
(* main's posting of the digest / no-articles / error message.             *)
(*                                                                         *)
(* Text is a sequence of characters.  A character is a one-element name:   *)
(* ASCII characters stand for themselves, other code points are written    *)
(* "U+XXXX":  U+FF21 FULLWIDTH A, U+FF29 FULLWIDTH I, U+FF41 fullwidth a,  *)
(* U+FF49 fullwidth i, U+FF01 FULLWIDTH EXCLAMATION MARK.                  *)
(* The keyword tables hold every keyword of the source that can be spelled *)
(* with the modelled characters; no other keyword can occur in a modelled  *)
(* title.                                                                  *)
(***************************************************************************)
EXTENDS Integers, Sequences, FiniteSets, TLC

VARIABLES
    pc,                     \* position of the run
    limit,                  \* fetch_multi_category_news(limit)
    feedIdx,                \* index into all_feeds of the feed being handled
    entryIdx,               \* entries of the current document read so far
    articles,               \* articles / filtered (one list object in the code)
    successful_feeds,
    failed_feeds,
    seen_urls,
    seen_normalized_titles,
    unique,
    source_count,
    category_counts,
    idx,                    \* position of the greedy loop in filtered
    tcIdx,                  \* position of the backfill loop in target_categories
    news_list,              \* what fetch_multi_category_news returned to main
    posted,                 \* messages handed to post_to_chatwork, in order
    origin,                 \* history: feed index of each ingested article
    failedSet,              \* history: feeds whose fetch or parse failed
    pipeline,               \* history: "running", "returned" or "raised"
    greedyLen,              \* history: length of unique when the greedy pass ended
    title,                  \* classifier input; first title of a comparison
    clsResult,              \* classifier output
    other_title,            \* second title of a comparison
    simFwd,                 \* is_similar_content(title, other_title)
    simBwd                  \* is_similar_content(other_title, title)

vars == <<pc, limit, feedIdx, entryIdx, articles, successful_feeds, failed_feeds,
          seen_urls, seen_normalized_titles, unique, source_count,
          category_counts, idx, tcIdx, news_list, posted, origin, failedSet,
          pipeline, greedyLen, title, clsResult, other_title, simFwd, simBwd>>

-----------------------------------------------------------------------------
(* Bounds of the model *)

\* words concatenated into a classifier input
MaxWords == 3
\* largest limit tried by the selection runs
MaxLimit == 6
\* articles of the corpus the selection runs draw their candidate list from
MaxCorpus == 11
\* feeds handled by a whole run
NumFeeds == 2
\* entries read from one feed document
MaxEntries == 2
\* blocks concatenated into a title of a comparison
MaxBlocks == 3

(* Program constants *)
NEWS_LIMIT == 8
ShortTitleLen == 10

Min(a, b) == IF a < b THEN a ELSE b
Max(a, b) == IF a > b THEN a ELSE b

-----------------------------------------------------------------------------
(* Characters and strings *)

\* str.lower() on one character
Lower(c) ==
    CASE c = "A" -> "a"
      [] c = "I" -> "i"
      [] c = "U+FF21" -> "U+FF41"
      [] c = "U+FF29" -> "U+FF49"
      [] OTHER -> c

LowerStr(s) == [k \in 1..Len(s) |-> Lower(s[k])]

\* kw in s  (substring test)
Contains(kw, s) ==
    \E p \in 0..(Len(s) - Len(kw)) :
        \A q \in 1..Len(kw) : s[p + q] = kw[q]

-----------------------------------------------------------------------------
(* Keyword classifier *)

CategoryOrder == <<"ai", "iot", "cloud", "security", "dx">>

category_keywords ==
    [ai       |-> << <<"a","i">>, <<"U+FF21","U+FF29">> >>,
     iot      |-> << <<"i","o","t">>, <<"m","2","m">>, <<"i","i","o","t">> >>,
     cloud    |-> << <<"a","w","s">>, <<"s","a","a","s">>, <<"i","a","a","s">> >>,
     security |-> << <<"s","s","o">> >>,
     dx       |-> << <<"d","x">> >>]

\* sum(1 for keyword in keywords if keyword in title_lower)
KeywordScore(cat, tl) ==
    LET kws == category_keywords[cat]
    IN  Cardinality({k \in 1..Len(kws) : Contains(kws[k], tl)})

\* category_scores: the categories with a positive score, in dict order
CategoryScores(tl) ==
    LET all == [k \in 1..Len(CategoryOrder) |->
                   <<CategoryOrder[k], KeywordScore(CategoryOrder[k], tl)>>]
    IN  SelectSeq(all, LAMBDA it : it[2] > 0)

RECURSIVE MaxLastFrom(_, _, _)
MaxLastFrom(items, k, best) ==
    IF k > Len(items) THEN best
    ELSE MaxLastFrom(items, k + 1, IF items[k][2] >= best[2] THEN items[k] ELSE best)

MaxByScoreLast(items) == MaxLastFrom(items, 2, items[1])

RECURSIVE MaxFrom(_, _, _)
MaxFrom(items, k, best) ==
    IF k > Len(items) THEN best
    ELSE MaxFrom(items, k + 1, IF items[k][2] > best[2] THEN items[k] ELSE best)

\* max(items, key=lambda x: x[1]): the first item with the largest key
MaxByScore(items) == MaxFrom(items, 2, items[1])

get_article_category(t) ==
    LET items == CategoryScores(LowerStr(t))
    IN  IF items = <<>> THEN "other" ELSE MaxByScore(items)[1]

-----------------------------------------------------------------------------
(* Deduplicator: normalize_title and is_similar_content *)

\* the modelled characters inside [U+3000-U+303F U+FF01-U+FF0F U+FF1A-U+FF20
\* U+FF3B-U+FF40 U+FF5B-U+FF65]
StrippedSymbols == {"U+FF01"}
\* [0-9] (no full-width digit is modelled)
Digits == {"0", "1", "2", "3", "4", "5", "6", "7", "8", "9"}
\* \s
Whitespace == {" "}

normalize_title(t) ==
    LET n1 == SelectSeq(t,  LAMBDA c : c \notin StrippedSymbols)
        n2 == SelectSeq(n1, LAMBDA c : c \notin Digits)
        n3 == SelectSeq(n2, LAMBDA c : c \notin Whitespace)
    IN  LowerStr(n3)

\* j2len: length of the common run of a and b that ends at a[i], b[j] and lies
\* inside a[alo..] and b[blo..]
RECURSIVE RunLen(_, _, _, _, _, _)
RunLen(a, b, alo, blo, i, j) ==
    IF i < alo \/ j < blo THEN 0
    ELSE IF a[i] # b[j] THEN 0
    ELSE 1 + RunLen(a, b, alo, blo, i - 1, j - 1)

\* SequenceMatcher.find_longest_match on a[alo..ahi], b[blo..bhi] (inclusive,
\* 1-based; no junk: isjunk is None and autojunk needs len(b) >= 200).
\* The loops walk the end positions i ascending, then j ascending, and replace
\* the best block only by a strictly longer one.
find_longest_match(a, b, alo, ahi, blo, bhi) ==
    LET pairs    == (alo..ahi) \X (blo..bhi)
        K(p)     == RunLen(a, b, alo, blo, p[1], p[2])
        bestsize == IF pairs = {} THEN 0
                    ELSE CHOOSE k \in {K(p) : p \in pairs} :
                             \A p \in pairs : K(p) <= k
        maxPairs == {p \in pairs : K(p) = bestsize}
        best     == CHOOSE p \in maxPairs :
                        \A q \in maxPairs :
                            p[1] < q[1] \/ (p[1] = q[1] /\ p[2] <= q[2])
    IN  IF bestsize = 0 THEN <<alo, blo, 0>>
        ELSE <<best[1] - bestsize + 1, best[2] - bestsize + 1, bestsize>>

\* sum of the sizes of get_matching_blocks(): the longest block, then the same
\* to its left and to its right
RECURSIVE MatchTotal(_, _, _, _, _, _)
MatchTotal(a, b, alo, ahi, blo, bhi) ==
    IF alo > ahi \/ blo > bhi THEN 0
    ELSE LET m == find_longest_match(a, b, alo, ahi, blo, bhi)
         IN  IF m[3] = 0 THEN 0
             ELSE m[3]
                  + MatchTotal(a, b, alo, m[1] - 1, blo, m[2] - 1)
                  + MatchTotal(a, b, m[1] + m[3], ahi, m[2] + m[3], bhi)

\* SequenceMatcher(None, a, b).ratio() >= 0.8, i.e. 2*M/T >= 4/5
RatioAtLeastThreshold(a, b) ==
    LET M == MatchTotal(a, b, 1, Len(a), 1, Len(b))
        T == Len(a) + Len(b)
    IN  IF T = 0 THEN TRUE ELSE 5 * M >= 2 * T

is_similar_content(title1, title2) ==
    LET norm1 == normalize_title(title1)
        norm2 == normalize_title(title2)
    IN  IF Len(norm1) < ShortTitleLen \/ Len(norm2) < ShortTitleLen
        THEN norm1 = norm2
        ELSE RatioAtLeastThreshold(norm1, norm2)

-----------------------------------------------------------------------------
(* Scorer *)

Categories == {"ai", "iot", "cloud", "security", "dx", "other"}

tier_bonus(tier) ==
    CASE tier = "tier1" -> 2
      [] tier = "tier2" -> 3
      [] tier = "tier3" -> 2
      [] tier = "tier4" -> 4
      [] tier = "tier5" -> 1
      [] tier = "tier6" -> 1
      [] OTHER -> 1

category_bonus(category) ==
    CASE category = "ai" -> 8
      [] category = "iot" -> 7
      [] category = "cloud" -> 7
      [] category = "security" -> 8
      [] category = "dx" -> 6
      [] category = "other" -> 2
      [] OTHER -> 1

\* the per-category keyword lists of the scorer, each with its weight
score_keywords ==
    [ai       |-> << >>,
     iot      |-> << << <<"i","o","t">>, 9 >> >>,
     cloud    |-> << << <<"a","w","s">>, 9 >> >>,
     security |-> << >>,
     dx       |-> << << <<"d","x">>, 8 >> >>,
     other    |-> << >>]

RECURSIVE KeywordBonus(_, _, _)
KeywordBonus(kws, tl, k) ==
    IF k > Len(kws) THEN 0
    ELSE (IF Contains(kws[k][1], tl) THEN kws[k][2] ELSE 0) + KeywordBonus(kws, tl, k + 1)

\* the closure reads category_counts as it is when the score is computed
calculate_multi_category_score(article, counts) ==
    LET title_lower   == LowerStr(article.title)
        current_count == counts[article.category]
        balance_bonus == Max(0, 10 - (current_count * 3))
    IN  balance_bonus
        + (IF article.tier # "additional" THEN tier_bonus(article.tier) ELSE 3)
        + category_bonus(article.category)
        + KeywordBonus(score_keywords[article.category], title_lower, 1)

\* list.sort(key=..., reverse=True): stable, descending
RECURSIVE InsertDesc(_, _, _, _)
InsertDesc(sorted, x, counts, k) ==
    IF k > Len(sorted) THEN Append(sorted, x)
    ELSE IF calculate_multi_category_score(sorted[k], counts)
              >= calculate_multi_category_score(x, counts)
         THEN InsertDesc(sorted, x, counts, k + 1)
         ELSE SubSeq(sorted, 1, k - 1) \o <<x>> \o SubSeq(sorted, k, Len(sorted))

RECURSIVE SortFrom(_, _, _, _)
SortFrom(seq, counts, k, acc) ==
    IF k > Len(seq) THEN acc
    ELSE SortFrom(seq, counts, k + 1, InsertDesc(acc, seq[k], counts, 1))

\* mutant: the candidates are left in ingestion order
SortByScoreNone(seq, counts) == seq

SortByScoreDesc(seq, counts) == SortFrom(seq, counts, 1, <<>>)

-----------------------------------------------------------------------------
(* Feeds and articles *)

\* all_feeds, as (source name of the URL, tier or category, feed type): a
\* sub-list, in the order of the code, of the 35 feeds of FEED_URLS and
\* ADDITIONAL_FEEDS.  Source names are written in ASCII.
all_feeds ==
    << [source |-> "Google News", category_or_tier |-> "tier1",  feed_type |-> "ai_source"],
       [source |-> "Yahoo News",  category_or_tier |-> "tier1",  feed_type |-> "ai_source"],
       [source |-> "ITmedia",     category_or_tier |-> "tier2",  feed_type |-> "ai_source"],
       [source |-> "CNET Japan",  category_or_tier |-> "tier2",  feed_type |-> "ai_source"],
       [source |-> "Publickey",   category_or_tier |-> "tier4",  feed_type |-> "ai_source"],
       [source |-> "Qiita",       category_or_tier |-> "tier5",  feed_type |-> "ai_source"],
       [source |-> "Microsoft",   category_or_tier |-> "office", feed_type |-> "additional_source"] >>

Sources == {all_feeds[k].source : k \in 1..Len(all_feeds)}

\* the dict appended to articles for one feed entry
MkArticle(t, link, feed) ==
    [title     |-> t,
     link      |-> link,
     source    |-> feed.source,
     tier      |-> IF feed.feed_type = "ai_source" THEN feed.category_or_tier
                   ELSE "additional",
     category  |-> get_article_category(t),
     feed_type |-> feed.feed_type]

Filler == <<"w","w","w","w","w","w","w","w","w">>

\* The entries the selection runs draw their candidate list from, in feed order
Corpus ==
    << [feed |-> 1, title |-> <<"i","o","t">>,                 link |-> "u1"],
       [feed |-> 1, title |-> <<"s","s","o">>,                 link |-> "u2"],
       [feed |-> 2, title |-> <<"a","i">> \o Filler,           link |-> "u3"],
       [feed |-> 3, title |-> <<"m","2","m">> \o Filler,       link |-> "u4"],
       [feed |-> 3, title |-> <<"a","w","s">>,                 link |-> "u5"],
       [feed |-> 4, title |-> <<"d","x">>,                     link |-> "u6"],
       [feed |-> 5, title |-> <<"a","i">>,                     link |-> "u7"],
       [feed |-> 6, title |-> <<"a","i","U+FF01">>,            link |-> "u8"],
       [feed |-> 7, title |-> <<"x">>,                         link |-> "u6"],
       [feed |-> 7, title |-> <<"d","x"," ","s","s","o">>,     link |-> "u6"],
       [feed |-> 7, title |-> <<"s","a","a","s">>,             link |-> "u9"],
       [feed |-> 7, title |-> <<"i","o","t">>,                 link |-> "u1"] >>

CorpusSize == Min(MaxCorpus, Len(Corpus))

CorpusArticle(k) == MkArticle(Corpus[k].title, Corpus[k].link, all_feeds[Corpus[k].feed])

\* the corpus articles with index in S, in corpus order
CandidateList(S) ==
    LET ks == SelectSeq([k \in 1..CorpusSize |-> k], LAMBDA k : k \in S)
    IN  [n \in 1..Len(ks) |-> CorpusArticle(ks[n])]

ZeroCounts(D) == [d \in D |-> 0]

-----------------------------------------------------------------------------
(* Selector: fetch_multi_category_news from the sort on *)

target_categories == <<"ai", "iot", "cloud", "security", "dx">>

\* mutant: the cap without its floor of one
max_per_source_unfloored(lim) == lim \div 3

max_per_source(lim) == Max(1, lim \div 3)

SelectionVars == <<seen_urls, seen_normalized_titles, unique, source_count, category_counts>>
FeedVars      == <<feedIdx, entryIdx, successful_feeds, failed_feeds, origin, failedSet>>
CompareVars   == <<other_title, simFwd, simBwd>>
ClassifyVars  == <<title, clsResult, CompareVars>>

\* filtered.sort(key=calculate_multi_category_score, reverse=True)
SortFiltered ==
    /\ pc = "sort"
    /\ articles' = SortByScoreDesc(articles, category_counts)
    /\ idx' = 1
    /\ pc' = "greedy"
    /\ UNCHANGED <<limit, SelectionVars, FeedVars, ClassifyVars, tcIdx, news_list,
                   posted, pipeline, greedyLen>>

\* mutant: the URL duplicate check never finds a duplicate
IsSeenUrlNever(link, urls) == FALSE

\* the URL duplicate check: article["link"] in seen_urls
IsSeenUrl(link, urls) == link \in urls

IsDuplicateTitle(current_title, seen) ==
    \E k \in 1..Len(seen) : is_similar_content(current_title, seen[k])

\* one iteration of "for article in filtered"
GreedyStep ==
    /\ pc = "greedy"
    /\ idx <= Len(articles)
    /\ LET article == articles[idx]
           accept  == /\ ~ IsSeenUrl(article.link, seen_urls)
                      /\ ~ IsDuplicateTitle(article.title, seen_normalized_titles)
                      /\ source_count[article.source] < max_per_source(limit)
       IN  IF accept
           THEN /\ seen_urls' = seen_urls \cup {article.link}
                /\ seen_normalized_titles' = Append(seen_normalized_titles, article.title)
                /\ unique' = Append(unique, article)
                /\ source_count' = [source_count EXCEPT ![article.source] = @ + 1]
                /\ category_counts' = [category_counts EXCEPT ![article.category] = @ + 1]
                /\ IF Len(unique) + 1 >= limit
                   THEN /\ pc' = "balance"
                        /\ greedyLen' = Len(unique) + 1
                        /\ idx' = idx
                   ELSE /\ pc' = pc
                        /\ greedyLen' = greedyLen
                        /\ idx' = idx + 1
           ELSE /\ UNCHANGED <<SelectionVars, pc, greedyLen>>
                /\ idx' = idx + 1
    /\ UNCHANGED <<limit, articles, FeedVars, ClassifyVars, tcIdx, news_list, posted,
                   pipeline>>

\* the loop ran out of candidates
GreedyDone ==
    /\ pc = "greedy"
    /\ idx > Len(articles)
    /\ pc' = "balance"
    /\ greedyLen' = Len(unique)
    /\ UNCHANGED <<limit, articles, SelectionVars, FeedVars, ClassifyVars, idx, tcIdx,
                   news_list, posted, pipeline>>

CountByCategory(seq) ==
    [c \in Categories |-> Cardinality({k \in 1..Len(seq) : seq[k].category = c})]

\* "if len(unique) < limit": recount the categories and enter the backfill loop
BackfillCheck ==
    /\ pc = "balance"
    /\ IF Len(unique) < limit
       THEN /\ category_counts' = CountByCategory(unique)
            /\ tcIdx' = 1
            /\ pc' = "backfill"
       ELSE /\ UNCHANGED <<category_counts, tcIdx>>
            /\ pc' = "return"
    /\ UNCHANGED <<limit, articles, seen_urls, seen_normalized_titles, unique,
                   source_count, FeedVars, ClassifyVars, idx, news_list, posted,
                   pipeline, greedyLen>>

\* mutant: the inner backfill loop does not test the link against seen_urls
BackfillCandidatesAnyLink(target_category) ==
    {k \in 1..Len(articles) :
        /\ articles[k].category = target_category
        /\ Len(unique) < limit}

\* the positions in filtered the inner backfill loop would take for a category
BackfillCandidates(target_category) ==
    {k \in 1..Len(articles) :
        /\ articles[k].category = target_category
        /\ ~ IsSeenUrl(articles[k].link, seen_urls)
        /\ Len(unique) < limit}

\* one iteration of "for target_category in target_categories"
BackfillStep ==
    /\ pc = "backfill"
    /\ tcIdx <= Len(target_categories)
    /\ LET target_category == target_categories[tcIdx]
           cands == BackfillCandidates(target_category)
       IN  IF category_counts[target_category] = 0 /\ Len(unique) < limit /\ cands # {}
           THEN LET k == CHOOSE c \in cands : \A d \in cands : c <= d
                IN  /\ unique' = Append(unique, articles[k])
                    /\ seen_urls' = seen_urls \cup {articles[k].link}
                    /\ category_counts' = [category_counts EXCEPT ![target_category] = 1]
           ELSE UNCHANGED <<unique, seen_urls, category_counts>>
    /\ tcIdx' = tcIdx + 1
    /\ UNCHANGED <<pc, limit, articles, seen_normalized_titles, source_count, FeedVars,
                   ClassifyVars, idx, news_list, posted, pipeline, greedyLen>>

BackfillDone ==
    /\ pc = "backfill"
    /\ tcIdx > Len(target_categories)
    /\ pc' = "return"
    /\ UNCHANGED <<limit, articles, SelectionVars, FeedVars, ClassifyVars, idx, tcIdx,
                   news_list, posted, pipeline, greedyLen>>

\* return unique
ReturnUnique ==
    /\ pc = "return"
    /\ news_list' = unique
    /\ pipeline' = "returned"
    /\ pc' = "returned"
    /\ UNCHANGED <<limit, articles, SelectionVars, FeedVars, ClassifyVars, idx, tcIdx,
                   posted, greedyLen>>

\* The selection called on any candidate list drawn from the corpus, with any
\* limit up to MaxLimit
InitSelect ==
    /\ pc = "sort"
    /\ limit \in 0..MaxLimit
    /\ \E S \in SUBSET (1..CorpusSize) : articles = CandidateList(S)
    /\ feedIdx = 0 /\ entryIdx = 0
    /\ successful_feeds = 0 /\ failed_feeds = 0
    /\ origin = <<>> /\ failedSet = {}
    /\ seen_urls = {} /\ seen_normalized_titles = <<>> /\ unique = <<>>
    /\ source_count = ZeroCounts(Sources)
    /\ category_counts = ZeroCounts(Categories)
    /\ idx = 0 /\ tcIdx = 0
    /\ news_list = <<>> /\ posted = <<>>
    /\ pipeline = "running" /\ greedyLen = 0
    /\ title = <<>> /\ clsResult = "none"
    /\ other_title = <<>> /\ simFwd = "none" /\ simBwd = "none"

NextSelect ==
    \/ SortFiltered
    \/ GreedyStep
    \/ GreedyDone
    \/ BackfillCheck
    \/ BackfillStep
    \/ BackfillDone
    \/ ReturnUnique

SpecSelect == InitSelect /\ [][NextSelect]_vars

-----------------------------------------------------------------------------
(* Feed loop of fetch_multi_category_news *)

\* What one entry of a fetched document can hold: a title and a link, either
\* of which may be missing or empty
FeedEntries ==
    { [title |-> <<>>,            link |-> "u1"],
      [title |-> <<"a","i">>,     link |-> ""],
      [title |-> <<"a","i">>,     link |-> "u1"],
      [title |-> <<"i","o","t">>, link |-> "u2"] }

MainVars == <<news_list, posted, pipeline>>
LoopVars == <<idx, tcIdx, greedyLen>>

\* requests.get / raise_for_status raised: count the failure, next feed
FetchFail ==
    /\ pc = "fetch"
    /\ feedIdx <= NumFeeds
    /\ failed_feeds' = failed_feeds + 1
    /\ failedSet' = failedSet \cup {feedIdx}
    /\ feedIdx' = feedIdx + 1
    /\ UNCHANGED <<pc, limit, entryIdx, articles, successful_feeds, origin,
                   SelectionVars, LoopVars, MainVars, ClassifyVars>>

\* the response arrived: go on to parse it
FetchOk ==
    /\ pc = "fetch"
    /\ feedIdx <= NumFeeds
    /\ successful_feeds' = successful_feeds + 1
    /\ entryIdx' = 0
    /\ pc' = "parse"
    /\ UNCHANGED <<limit, feedIdx, articles, failed_feeds, origin, failedSet,
                   SelectionVars, LoopVars, MainVars, ClassifyVars>>

\* one iteration of the item / entry loops: append the article when the entry
\* has a title and a link
ParseEntry ==
    /\ pc = "parse"
    /\ entryIdx < MaxEntries
    /\ \E e \in FeedEntries :
          IF e.title # <<>> /\ e.link # ""
          THEN /\ articles' = Append(articles, MkArticle(e.title, e.link, all_feeds[feedIdx]))
               /\ origin' = Append(origin, feedIdx)
          ELSE UNCHANGED <<articles, origin>>
    /\ entryIdx' = entryIdx + 1
    /\ UNCHANGED <<pc, limit, feedIdx, successful_feeds, failed_feeds, failedSet,
                   SelectionVars, LoopVars, MainVars, ClassifyVars>>

\* the document has no further entry: next feed
ParseDone ==
    /\ pc = "parse"
    /\ feedIdx' = feedIdx + 1
    /\ pc' = "fetch"
    /\ UNCHANGED <<limit, entryIdx, articles, successful_feeds, failed_feeds, origin,
                   failedSet, SelectionVars, LoopVars, MainVars, ClassifyVars>>

\* an exception inside the parse try block, at the parser call or in the middle
\* of the loops: the handler logs it, and the loop goes on to the next feed
ParseFail ==
    /\ pc = "parse"
    /\ failedSet' = failedSet \cup {feedIdx}
    /\ feedIdx' = feedIdx + 1
    /\ pc' = "fetch"
    /\ UNCHANGED <<limit, entryIdx, articles, successful_feeds, failed_feeds, origin,
                   SelectionVars, LoopVars, MainVars, ClassifyVars>>

\* all feeds handled: filtered = articles, on to the scoring and the sort
FeedsDone ==
    /\ pc = "fetch"
    /\ feedIdx > NumFeeds
    /\ pc' = "sort"
    /\ UNCHANGED <<limit, articles, FeedVars, SelectionVars, LoopVars, MainVars,
                   ClassifyVars>>

-----------------------------------------------------------------------------
(* main *)

PipelinePcs == {"fetch", "parse", "sort", "greedy", "balance", "backfill", "return"}

\* an exception leaves fetch_multi_category_news (raised outside the two
\* per-feed try blocks, so none of its own handlers covers it): main's
\* "except Exception" takes over
PipelineRaise ==
    /\ pc \in {"fetch", "sort", "greedy", "balance", "backfill", "return"}
    /\ pipeline' = "raised"
    /\ pc' = "except"
    /\ UNCHANGED <<limit, articles, FeedVars, SelectionVars, LoopVars, news_list,
                   posted, ClassifyVars>>

\* mutant: the digest is posted whether or not the list is empty
PostFirstAlwaysDigest ==
    /\ pc = "returned"
    /\ \E ok \in BOOLEAN :
          /\ posted' = Append(posted, [msg |-> "digest", ok |-> ok])
          /\ pc' = IF ok THEN "done" ELSE "except"
    /\ UNCHANGED <<limit, articles, FeedVars, SelectionVars, LoopVars, news_list,
                   pipeline, ClassifyVars>>

\* mutant: the first post is made while the selection is still being built
PostFirstEarly ==
    /\ pc \in {"returned", "backfill"}
    /\ \E ok \in BOOLEAN :
          /\ posted' = Append(posted,
                 [msg |-> IF unique = <<>> THEN "no_news" ELSE "digest", ok |-> ok])
          /\ pc' = IF ok THEN "done" ELSE "except"
    /\ UNCHANGED <<limit, articles, FeedVars, SelectionVars, LoopVars, news_list,
                   pipeline, ClassifyVars>>

\* post_to_chatwork of the no-articles message or of the digest; the call
\* returns, or raises and control goes to the except clause
PostFirst ==
    /\ pc = "returned"
    /\ \E ok \in BOOLEAN :
          /\ posted' = Append(posted,
                 [msg |-> IF news_list = <<>> THEN "no_news" ELSE "digest", ok |-> ok])
          /\ pc' = IF ok THEN "done" ELSE "except"
    /\ UNCHANGED <<limit, articles, FeedVars, SelectionVars, LoopVars, news_list,
                   pipeline, ClassifyVars>>

\* the except clause: post the error notification; a failure of that post is
\* logged and swallowed
PostError ==
    /\ pc = "except"
    /\ \E ok \in BOOLEAN :
          posted' = Append(posted, [msg |-> "error", ok |-> ok])
    /\ pc' = "done"
    /\ UNCHANGED <<limit, articles, FeedVars, SelectionVars, LoopVars, news_list,
                   pipeline, ClassifyVars>>

\* main(): fetch_multi_category_news() with the default limit
Init ==
    /\ pc = "fetch"
    /\ limit = NEWS_LIMIT
    /\ articles = <<>>
    /\ feedIdx = 1 /\ entryIdx = 0
    /\ successful_feeds = 0 /\ failed_feeds = 0
    /\ origin = <<>> /\ failedSet = {}
    /\ seen_urls = {} /\ seen_normalized_titles = <<>> /\ unique = <<>>
    /\ source_count = ZeroCounts(Sources)
    /\ category_counts = ZeroCounts(Categories)
    /\ idx = 0 /\ tcIdx = 0
    /\ news_list = <<>> /\ posted = <<>>
    /\ pipeline = "running" /\ greedyLen = 0
    /\ title = <<>> /\ clsResult = "none"
    /\ other_title = <<>> /\ simFwd = "none" /\ simBwd = "none"

Next ==
    \/ FetchFail
    \/ FetchOk
    \/ ParseEntry
    \/ ParseDone
    \/ ParseFail
    \/ FeedsDone
    \/ SortFiltered
    \/ GreedyStep
    \/ GreedyDone
    \/ BackfillCheck
    \/ BackfillStep
    \/ BackfillDone
    \/ ReturnUnique
    \/ PipelineRaise
    \/ PostFirst
    \/ PostError

Spec == Init /\ [][Next]_vars

-----------------------------------------------------------------------------
(* The classifier on its own *)

Words ==
    { <<"a","i">>, <<"i","o","t">>, <<"a","w","s">>, <<"s","s","o">>, <<"d","x">>,
      <<"A","I">>, <<"U+FF21","U+FF29">>, <<"i">>, <<"x">>, <<"m","2","m">>,
      <<"s","a","a","s">> }

RECURSIVE Concatenations(_)
Concatenations(n) ==
    IF n = 0 THEN {<<>>}
    ELSE LET shorter == Concatenations(n - 1)
         IN  shorter \cup {t \o w : t \in shorter, w \in Words}

ClassifierInputs == Concatenations(MaxWords)

Classify ==
    /\ pc = "classify"
    /\ clsResult' = get_article_category(title)
    /\ pc' = "classified"
    /\ UNCHANGED <<limit, articles, FeedVars, SelectionVars, LoopVars, MainVars, title,
                   CompareVars>>

InitClassify ==
    /\ pc = "classify"
    /\ title \in ClassifierInputs
    /\ clsResult = "none"
    /\ other_title = <<>> /\ simFwd = "none" /\ simBwd = "none"
    /\ limit = NEWS_LIMIT
    /\ articles = <<>>
    /\ feedIdx = 0 /\ entryIdx = 0
    /\ successful_feeds = 0 /\ failed_feeds = 0
    /\ origin = <<>> /\ failedSet = {}
    /\ seen_urls = {} /\ seen_normalized_titles = <<>> /\ unique = <<>>
    /\ source_count = ZeroCounts(Sources)
    /\ category_counts = ZeroCounts(Categories)
    /\ idx = 0 /\ tcIdx = 0
    /\ news_list = <<>> /\ posted = <<>>
    /\ pipeline = "running" /\ greedyLen = 0

NextClassify == Classify

SpecClassify == InitClassify /\ [][NextClassify]_vars

-----------------------------------------------------------------------------
(* is_similar_content on pairs of titles, called with the arguments in both *)
(* orders                                                                   *)

\* titles are concatenations of up to MaxBlocks of these blocks: up to two
\* blocks stay below the ten characters of the short-title branch, three
\* blocks reach the ratio branch
TitleBlocks ==
    { <<"a","w","a","a">>, <<"w","a","a","a">>, <<"w","w","a","a">> }

RECURSIVE BlockConcatenations(_)
BlockConcatenations(n) ==
    IF n = 0 THEN {<<>>}
    ELSE LET shorter == BlockConcatenations(n - 1)
         IN  shorter \cup {t \o b : t \in shorter, b \in TitleBlocks}

CompareInputs == BlockConcatenations(MaxBlocks)

CompareForward ==
    /\ pc = "compare"
    /\ simFwd' = is_similar_content(title, other_title)
    /\ pc' = "compare_back"
    /\ UNCHANGED <<limit, articles, FeedVars, SelectionVars, LoopVars, MainVars, title,
                   clsResult, other_title, simBwd>>

CompareBackward ==
    /\ pc = "compare_back"
    /\ simBwd' = is_similar_content(other_title, title)
    /\ pc' = "compared"
    /\ UNCHANGED <<limit, articles, FeedVars, SelectionVars, LoopVars, MainVars, title,
                   clsResult, other_title, simFwd>>

InitCompare ==
    /\ pc = "compare"
    /\ title \in CompareInputs
    /\ other_title \in CompareInputs
    /\ simFwd = "none" /\ simBwd = "none"
    /\ clsResult = "none"
    /\ limit = NEWS_LIMIT
    /\ articles = <<>>
    /\ feedIdx = 0 /\ entryIdx = 0
    /\ successful_feeds = 0 /\ failed_feeds = 0
    /\ origin = <<>> /\ failedSet = {}
    /\ seen_urls = {} /\ seen_normalized_titles = <<>> /\ unique = <<>>
    /\ source_count = ZeroCounts(Sources)
    /\ category_counts = ZeroCounts(Categories)
    /\ idx = 0 /\ tcIdx = 0
    /\ news_list = <<>> /\ posted = <<>>
    /\ pipeline = "running" /\ greedyLen = 0

NextCompare == CompareForward \/ CompareBackward

SpecCompare == InitCompare /\ [][NextCompare]_vars

-----------------------------------------------------------------------------
(* Properties *)

CountFromSource(seq, src) == Cardinality({k \in 1..Len(seq) : seq[k].source = src})

HasCategory(seq, c) == \E k \in 1..Len(seq) : seq[k].category = c

TargetSet == {target_categories[k] : k \in 1..Len(target_categories)}

\* C1: for every limit >= 1 the returned list holds at most max(1, limit // 3)
\* articles of any single source.
C1_PerSourceCap ==
    (pc = "returned" /\ limit >= 1) =>
        \A src \in Sources : CountFromSource(news_list, src) <= Max(1, limit \div 3)

\* C2: for every limit >= 0, limit = 0 included, the returned list is no longer
\* than limit.
C2_LengthAtMostLimit ==
    pc = "returned" => Len(news_list) <= limit

\* C3: an empty candidate list gives an empty result, and with limit >= 1 a
\* non-empty candidate list gives at least one selected article.
C3_EmptyOnlyWhenNoCandidates ==
    pc = "returned" =>
        /\ (articles = <<>> => news_list = <<>>)
        /\ ((limit >= 1 /\ articles # <<>>) => Len(news_list) >= 1)

\* C3 witness: several candidates, all but one rejected, one returned
C3_Witness ==
    /\ pc = "returned"
    /\ limit >= 2
    /\ Len(articles) >= 2
    /\ Len(news_list) = 1

\* C4: with limit >= 5 and a candidate of each target category, every target
\* category appears in the returned list.
C4_CategoryCoverage ==
    (/\ pc = "returned"
     /\ limit >= Len(target_categories)
     /\ \A c \in TargetSet : HasCategory(articles, c))
        => \A c \in TargetSet : HasCategory(news_list, c)

AllShareOneLink(seq) ==
    /\ Len(seq) >= 2
    /\ \A k \in 1..Len(seq) : seq[k].link = seq[1].link

\* C5: no two accepted articles (greedy or backfill) have the same link; and
\* candidates that all share one link give exactly one article, the first of
\* them in score order.
C5_LinksDistinct ==
    /\ \A i, j \in 1..Len(unique) : i # j => unique[i].link # unique[j].link
    /\ (pc = "returned" /\ AllShareOneLink(articles)) =>
          /\ news_list = <<articles[1]>>
          /\ \A k \in 1..Len(articles) :
                calculate_multi_category_score(news_list[1], ZeroCounts(Categories))
                    >= calculate_multi_category_score(articles[k], ZeroCounts(Categories))

\* C5 witness: three candidates with one link and different titles, one returned
C5_Witness ==
    /\ pc = "returned"
    /\ Len(articles) = 3
    /\ AllShareOneLink(articles)
    /\ \A i, j \in 1..3 : i # j => articles[i].title # articles[j].title
    /\ Len(news_list) = 1

\* C6: no two articles of the returned list are fuzzy-title duplicates of each
\* other.
C6_NoSimilarTitles ==
    pc = "returned" =>
        \A i, j \in 1..Len(news_list) :
            i # j => ~ is_similar_content(news_list[i].title, news_list[j].title)

Msgs(seq) == [k \in 1..Len(seq) |-> seq[k].msg]

\* C7 as stated: a finished run of main has handed exactly one message to the
\* chat poster.
C7_ExactlyOneMessage ==
    pc = "done" => Len(posted) = 1

\* C7 amended: a finished run has handed one or two messages to the poster.
\* The first is the error notification when the pipeline raised, the
\* no-articles message when it returned an empty list, the digest otherwise;
\* a second one is handed over exactly when the first post call raised, and it
\* is the error notification.  Digest and no-articles message never both occur.
C7_OneOrTwoMessages ==
    /\ Len(posted) <= 2
    /\ ~ (\E i, j \in 1..Len(posted) : posted[i].msg = "digest" /\ posted[j].msg = "no_news")
    /\ pc = "done" =>
          /\ Len(posted) >= 1
          /\ pipeline \in {"returned", "raised"}
          /\ pipeline = "raised" => Msgs(posted) = <<"error">>
          /\ pipeline = "returned" =>
                /\ posted[1].msg = (IF news_list = <<>> THEN "no_news" ELSE "digest")
                /\ posted[1].ok => Len(posted) = 1
                /\ ~ posted[1].ok => Msgs(posted) = <<posted[1].msg, "error">>

\* C7 witness: the digest post raised and the error notification followed
C7_Witness ==
    /\ pc = "done"
    /\ Msgs(posted) = <<"digest", "error">>
    /\ ~ posted[1].ok

\* C8: whenever a message has been handed to the poster, the pipeline has
\* returned its final list or raised; no post happens while the feed loop or
\* the selection is still running.
C8_NoPostBeforePipelineEnds ==
    posted # <<>> =>
        /\ pc \notin PipelinePcs
        /\ pipeline \in {"returned", "raised"}
        /\ pipeline = "returned" => news_list = unique

\* C8 witness: a digest of a non-empty selection has been posted
C8_Witness ==
    /\ posted # <<>>
    /\ posted[1].msg = "digest"
    /\ pipeline = "returned"
    /\ Len(news_list) >= 2

\* C9: the candidate list passed to the selection holds no article of a feed
\* whose fetch or parse failed.
C9_NoArticleOfFailedFeed ==
    pc = "sort" => \A k \in 1..Len(articles) : origin[k] \notin failedSet

MatchCount(c, t) ==
    Cardinality({k \in 1..Len(category_keywords[c]) :
                    Contains(category_keywords[c][k], LowerStr(t))})

PositionOf(c) == CHOOSE k \in 1..Len(CategoryOrder) : CategoryOrder[k] = c

\* C10: the classifier returns "other" when no keyword of any category occurs
\* in the lower-cased title, otherwise the category with the highest match
\* count, and of several with that count the first in the order ai, iot,
\* cloud, security, dx.
C10_ArgmaxFirstInOrder ==
    pc = "classified" =>
        IF \A k \in 1..Len(CategoryOrder) : MatchCount(CategoryOrder[k], title) = 0
        THEN clsResult = "other"
        ELSE /\ \E k \in 1..Len(CategoryOrder) : CategoryOrder[k] = clsResult
             /\ \A k \in 1..Len(CategoryOrder) :
                   /\ MatchCount(CategoryOrder[k], title) <= MatchCount(clsResult, title)
                   /\ k < PositionOf(clsResult) =>
                         MatchCount(CategoryOrder[k], title) < MatchCount(clsResult, title)

\* C10 witness: two categories tie on the highest count and the earlier one is
\* returned
C10_Witness ==
    /\ pc = "classified"
    /\ clsResult = "iot"
    /\ MatchCount("iot", title) = 1
    /\ MatchCount("dx", title) = 1
    /\ MatchCount("ai", title) = 0

OnlyFullWidthKeyword(kw, t) ==
    /\ Contains(kw, t)
    /\ \A k \in 1..Len(CategoryOrder) :
          \A n \in 1..Len(category_keywords[CategoryOrder[k]]) :
              category_keywords[CategoryOrder[k]][n] # kw =>
                  ~ Contains(category_keywords[CategoryOrder[k]][n], LowerStr(t))

\* C11: a title whose only keyword occurrence is the full-width upper-case
\* spelling listed in the ai table (U+FF21 U+FF29) is classified "ai", as the
\* same title with the half-width spelling is.
C11_FullWidthKeywordMatches ==
    (pc = "classified" /\ OnlyFullWidthKeyword(<<"U+FF21", "U+FF29">>, title))
        => clsResult = "ai"

\* C12: is_similar_content gives the same answer for a pair of titles in
\* either argument order, in the short-title branch and in the ratio branch.
C12_SimilarSymmetric ==
    pc = "compared" => simFwd = simBwd

ScoreAgainst(a, counts) == calculate_multi_category_score(a, counts)

\* C13: the balance bonus max(0, 10 - 3n) is taken against the articles
\* accepted so far: of two candidates still to be considered whose scores
\* differ only by it, one whose category already has accepted articles is
\* scored lower than one whose category has none, so it does not come first.
C13_BalanceAgainstAcceptedState ==
    pc = "greedy" =>
        \A i, j \in idx..Len(articles) :
            (/\ i < j
             /\ category_counts[articles[i].category] > 0
             /\ category_counts[articles[j].category] = 0
             /\ ScoreAgainst(articles[i], ZeroCounts(Categories))
                    = ScoreAgainst(articles[j], ZeroCounts(Categories)))
                => ScoreAgainst(articles[i], category_counts)
                       >= ScoreAgainst(articles[j], category_counts)

GreedyPart == SubSeq(unique, 1, greedyLen)

BackfillPart == SubSeq(unique, greedyLen + 1, Len(unique))

\* the order of the backfill pass as the claim states it
BackfillOrder == <<"ai", "iot", "cloud", "security", "dx">>

TargetPos(c) == CHOOSE k \in 1..Len(BackfillOrder) : BackfillOrder[k] = c

LinksOf(seq) == {seq[k].link : k \in 1..Len(seq)}

\* the candidates of category c whose link is not among those of seq
FreeCandidates(c, seq) ==
    {k \in 1..Len(articles) :
        articles[k].category = c /\ articles[k].link \notin LinksOf(seq)}

\* C14: the backfill pass adds articles only when the greedy pass accepted
\* fewer than limit; what it adds follows the order ai, iot, cloud, security,
\* dx with at most one article per category, each of a category with no
\* accepted article at that moment, and each the first article of its category
\* in the sorted candidate list whose link was not yet accepted; a target
\* category is left out only when the list is full or no such article exists.
C14_BackfillRule ==
    pc \in {"backfill", "return", "returned"} =>
        /\ (pc = "backfill" \/ BackfillPart # <<>>) => greedyLen < limit
        /\ \A n \in 1..Len(BackfillPart) :
              LET added  == BackfillPart[n]
                  before == SubSeq(unique, 1, greedyLen + n - 1)
                  free   == FreeCandidates(added.category, before)
              IN  /\ \E k \in 1..Len(BackfillOrder) : BackfillOrder[k] = added.category
                  /\ ~ HasCategory(before, added.category)
                  /\ Len(before) < limit
                  /\ \A m \in 1..(n - 1) :
                        TargetPos(BackfillPart[m].category) < TargetPos(added.category)
                  /\ \E k \in free : articles[k] = added /\ \A d \in free : k <= d
        /\ (pc \in {"return", "returned"} /\ greedyLen < limit) =>
              \A c \in TargetSet :
                  (~ HasCategory(unique, c) /\ Len(unique) < limit)
                      => FreeCandidates(c, unique) = {}

\* C14 witness: the backfill pass passed over the first candidate of a missing
\* category, whose link was already accepted, and added the next one
C14_Witness ==
    /\ pc = "returned"
    /\ \E n \in 1..Len(BackfillPart) :
          \E k, d \in 1..Len(articles) :
              /\ k < d
              /\ articles[d] = BackfillPart[n]
              /\ articles[k].category = articles[d].category
              /\ articles[k].link \in LinksOf(GreedyPart)

\* the key the sort computed for an article: category_counts is empty then
ScoreAtSort(a) == calculate_multi_category_score(a, ZeroCounts(Categories))

\* the position of an article in the candidate list as it was ingested
IngestionIndex(a) == CHOOSE k \in 1..CorpusSize : CorpusArticle(k) = a

GreedyPartSorted ==
    \A i, j \in 1..Min(greedyLen, Len(news_list)) :
        i < j =>
            \/ ScoreAtSort(news_list[i]) > ScoreAtSort(news_list[j])
            \/ /\ ScoreAtSort(news_list[i]) = ScoreAtSort(news_list[j])
               /\ IngestionIndex(news_list[i]) < IngestionIndex(news_list[j])

IsPrefix(s, t) == Len(s) <= Len(t) /\ SubSeq(t, 1, Len(s)) = s

\* once the greedy pass has ended, articles are only appended to its result,
\* and the list returned is that result
BackfillOnlyAppends ==
    pc \in {"balance", "backfill", "return"} =>
        /\ IsPrefix(unique, unique')
        /\ Len(unique) >= greedyLen
        /\ pc' = "returned" => news_list' = unique

\* C15: in the returned list the articles accepted by the greedy pass stand in
\* non-increasing order of the score computed at sort time, equal scores in
\* ingestion order, and every article added by the backfill pass stands after
\* all of them, whatever its score.
C15_OutputOrder ==
    /\ [](pc = "balance" => Len(unique) = greedyLen)
    /\ [](pc = "returned" => GreedyPartSorted)
    /\ [][BackfillOnlyAppends]_vars

\* C15 witness: a returned list whose backfill article has a higher sort-time
\* score than a greedy-pass article standing before it
C15_Witness ==
    /\ pc = "returned"
    /\ greedyLen < Len(news_list)
    /\ \E i \in 1..greedyLen : \E j \in (greedyLen + 1)..Len(news_list) :
          ScoreAtSort(news_list[i]) < ScoreAtSort(news_list[j])

====
